---- MODULE Spec2Model ----
(***************************************************************************)
(* The rendering pipeline of the opencl tracer: DefaultPipeline, the       *)
(* pipeline stages and the MonteCarloIntegrator bounce loop of             *)
(* tracer/opencl/pipeline.go, driven by a tracer worker that takes         *)
(* BlockRequests from a queue and signals on their DoneChan / ErrChan.     *)
(*                                                                         *)
(* Every call on tr.resources (and every host call a capture makes) is     *)
(* appended to `calls` with the result the device gave; the device may     *)
(* fail any call.                                                          *)
(***************************************************************************)
EXTENDS Integers, Sequences, FiniteSets, TLC

\* ------------------------------------------------------------------ bounds
MaxBounces == 3
MaxRequests == 2

\* ---------------------------------------------------------------- helpers
\* uint32(x) for 0 <= x < 2^31, the part of uint32 that TLC's integers
\* hold; the model's requests keep every uint32 expression in that range
\* (bounce + 1 <= NumBounces, 1 - activeRayBuf \in {0, 1}).
ToUint32(x) == x

\* Mutant: the shift counts from the first flag, as if NoDebug did not take
\* the first value of iota.
Pow2CountingFromFirstFlag(n) == 2 ^ (n - 1)

Pow2(n) == 2 ^ n

\* x & y on unsigned integers of the given width, bit by bit.
RECURSIVE BitAnd(_, _, _)
BitAnd(x, y, width) ==
    IF width = 0 THEN 0
    ELSE (IF x % 2 = 1 /\ y % 2 = 1 THEN 1 ELSE 0)
         + 2 * BitAnd(x \div 2, y \div 2, width - 1)

\* --------------------------------------------------------------- DebugFlag
DebugFlagBits == 16

NoDebug == 0
PrimaryRayIntersectionDepth == Pow2(1)
PrimaryRayIntersectionNormals == Pow2(2)
AllEmissiveSamples == Pow2(3)
VisibleEmissiveSamples == Pow2(4)
OccludedEmissiveSamples == Pow2(5)
Throughput == Pow2(6)
Accumulator == Pow2(7)
FrameBuffer == Pow2(8)

\* debugFlags&F == F
HasFlag(flags, F) == BitAnd(flags, F, DebugFlagBits) = F

\* ------------------------------------------------------------------ errors
Nil == "nil"
ErrDevice == "device error"
ErrKernel == "debug kernel error"
ErrCreate == "os.Create error"
ErrRead == "ReadData error"
ErrEncode == "png.Encode error"

GpuDevice == "GpuDevice"
CpuDevice == "CpuDevice"

VARIABLES
    debugFlags,             \* the DebugFlag value the tracer was configured with
    pipeline,               \* the *Pipeline built by DefaultPipeline(debugFlags)
    devType,                \* tr.device.Type
    sceneDiffuseMatIndex,   \* tr.sceneData.SceneDiffuseMatIndex
    numEmissivePrimitives,  \* len(tr.sceneData.EmissivePrimitives)
    queue,                  \* enqueued block requests not yet taken
    enqueued,               \* every request Enqueue was called with, in order
    running,                \* ids of the requests whose pipeline run is in progress
    cur,                    \* the request the worker is running
    stage,                  \* the worker's position in the pipeline
    ppIdx,                  \* index of the next PostProcess stage
    runErr,                 \* the error that aborted the run, or Nil
    doneChan,               \* per request id, the values sent on DoneChan
    errChan,                \* per request id, the values sent on ErrChan
    started,                \* request ids in the order their runs began
    ipc,                    \* position inside the integrator closure
    activeRayBuf,           \* pipeline.go:102
    bounce,                 \* pipeline.go:131
    ierr,                   \* the error the integrator returned
    calls,                  \* device / host calls issued by the stage now running
    stagesRun,              \* <<stage name, returned error>> per stage run for cur
    rng,                    \* number of rand.Uint32() draws so far
    flips,                  \* times line 204 ran in the current integrator call
    fbBuf,                  \* the staging buffer of one CopyFrameBufferToOpenGLTexture stage
    frameBufferSize,        \* tr.resources.buffers.FrameBuffer.Size()
    copies                  \* what each call of that stage did, in order

vars == <<debugFlags, pipeline, devType, sceneDiffuseMatIndex, numEmissivePrimitives,
          queue, enqueued, running, cur, stage, ppIdx, runErr, doneChan,
          errChan, started, stagesRun, ipc, activeRayBuf, bounce, ierr, calls,
          rng, flips, fbBuf, frameBufferSize, copies>>

tracerVars == <<queue, enqueued, running, cur, stage, ppIdx, runErr,
                doneChan, errChan, started, stagesRun>>
sceneVars == <<debugFlags, pipeline, devType, sceneDiffuseMatIndex, numEmissivePrimitives>>
copyVars == <<fbBuf, frameBufferSize, copies>>
integratorVars == <<ipc, activeRayBuf, bounce, ierr, calls, rng, flips>>

\* One entry of the call log.
Call(op, args, file, res) == [op |-> op, args |-> args, file |-> file, res |-> res]

\* ------------------------------------------------------- pipeline stages
SaveFrameBufferStage(imgFile) == [fn |-> "SaveFrameBuffer", file |-> imgFile]
TonemapStage == [fn |-> "TonemapSimpleReinhard", file |-> ""]

\* Mutant: the framebuffer dump is put in front of the tonemap stage.
DefaultPostProcessDumpFirst(flags) ==
    IF HasFlag(flags, FrameBuffer)
    THEN <<SaveFrameBufferStage("debug-fb.png"), TonemapStage>>
    ELSE <<TonemapStage>>

\* lines 60-67
DefaultPostProcess(flags) ==
    IF HasFlag(flags, FrameBuffer)
    THEN Append(<<TonemapStage>>, SaveFrameBufferStage("debug-fb.png"))
    ELSE <<TonemapStage>>

DefaultPipeline(flags) ==
    [Reset |-> "ClearAccumulator",
     PrimaryRayGenerator |-> "PerspectiveCamera",
     Integrator |-> [fn |-> "MonteCarloIntegrator", debugFlags |-> flags],
     PostProcess |-> DefaultPostProcess(flags)]

\* The flags the integrator closure captured.
IntegratorFlags == pipeline.Integrator.debugFlags

\* ------------------------------------------------------------ the request
\* Mutant: the pixel count of the whole frame instead of the block's.
NumPixelsOfFrame(req) == ToUint32(req.FrameW * req.FrameH)

NumPixels(req) == ToUint32(req.FrameW * req.BlockH)
NumEmissives == ToUint32(numEmissivePrimitives)

\* --------------------------------------------------------- dumpDebugBuffer
\* fmt.Sprintf("%03d", n): the decimal digits of n, zero-padded to width 3.
RECURSIVE Digits(_)
Digits(n) == IF n < 10 THEN <<n>> ELSE Append(Digits(n \div 10), n % 10)

Fmt03(n) ==
    LET d == Digits(n)
    IN  IF Len(d) >= 3 THEN d
        ELSE IF Len(d) = 2 THEN <<0>> \o d
        ELSE <<0, 0>> \o d

\* What the device and the host do at a capture: the set of operations that
\* fail if they are attempted.
FailPoints == SUBSET {"kernel", "create", "read", "encode"}

KernelResult(fp) == IF "kernel" \in fp THEN ErrKernel ELSE Nil
HostResults(fp) ==
    [create |-> IF "create" \in fp THEN ErrCreate ELSE Nil,
     read   |-> IF "read" \in fp THEN ErrRead ELSE Nil,
     encode |-> IF "encode" \in fp THEN ErrEncode ELSE Nil]

\* Mutant: the kernel error handed in is not looked at; the dump is attempted
\* and its own outcome returned.
dumpDebugBufferUnguarded(debugKernelError, imgFile, io) ==
    LET create == Call("os.Create", imgFile[2], imgFile[1], io.create)
        read   == Call("DebugOutput.ReadData", <<>>, "", io.read)
        encode == Call("png.Encode", imgFile[2], imgFile[1], io.encode)
    IN  IF io.create # Nil
        THEN [err |-> io.create, effects |-> <<create>>]
        ELSE IF io.read # Nil
        THEN [err |-> io.read, effects |-> <<create, read>>]
        ELSE [err |-> io.encode, effects |-> <<create, read, encode>>]

\* dumpDebugBuffer(debugKernelError, dr, frameW, frameH, imgFile): the error
\* it returns and the host calls it makes. imgFile is <<name, digits>>.
dumpDebugBuffer(debugKernelError, imgFile, io) ==
    IF debugKernelError # Nil
    THEN [err |-> debugKernelError, effects |-> <<>>]
    ELSE LET create == Call("os.Create", imgFile[2], imgFile[1], io.create)
             read   == Call("DebugOutput.ReadData", <<>>, "", io.read)
             encode == Call("png.Encode", imgFile[2], imgFile[1], io.encode)
         IN  IF io.create # Nil
             THEN [err |-> io.create, effects |-> <<create>>]
             ELSE IF io.read # Nil
             THEN [err |-> io.read, effects |-> <<create, read>>]
             ELSE [err |-> io.encode, effects |-> <<create, read, encode>>]

\* The two statements of a capture: the debug kernel call, then
\* err = dumpDebugBuffer(err, ...).
Capture(kernelOp, kernelArgs, imgFile, fp) ==
    LET kres == KernelResult(fp)
        d    == dumpDebugBuffer(kres, imgFile, HostResults(fp))
    IN  [err |-> d.err,
         log |-> <<Call(kernelOp, kernelArgs, "", kres)>> \o d.effects]

\* ------------------------------------------------ MonteCarloIntegrator
InIntegrator == stage = "Integrator"

\* return time.Since(start), err
Return(err) == ipc' = "done" /\ ierr' = err

\* Mutant: the error of a device call is dropped and the integrator goes on.
DeviceCallIgnoringError(op, args, next) ==
    \E res \in {Nil, ErrDevice} :
        /\ calls' = Append(IF ipc = "entry" THEN <<>> ELSE calls,
                           Call(op, args, "", res))
        /\ ipc' = next /\ ierr' = ierr

\* One device call whose error, if any, is returned at once.
DeviceCall(op, args, next) ==
    \E res \in {Nil, ErrDevice} :
        /\ calls' = Append(IF ipc = "entry" THEN <<>> ELSE calls,
                           Call(op, args, "", res))
        /\ IF res # Nil THEN Return(res) ELSE ipc' = next /\ ierr' = ierr

\* Mutant: the error of a capture is dropped and the integrator goes on.
CaptureStepIgnoringError(flag, kernelOp, kernelArgs, imgFile, next) ==
    IF HasFlag(IntegratorFlags, flag)
    THEN \E fp \in FailPoints :
            LET c == Capture(kernelOp, kernelArgs, imgFile, fp)
            IN  /\ calls' = calls \o c.log
                /\ ipc' = next /\ ierr' = ierr
    ELSE ipc' = next /\ UNCHANGED <<calls, ierr>>

\* Mutant: the capture's return is not guarded by err != nil.
CaptureStepStrayReturn(flag, kernelOp, kernelArgs, imgFile, next) ==
    IF HasFlag(IntegratorFlags, flag)
    THEN \E fp \in FailPoints :
            LET c == Capture(kernelOp, kernelArgs, imgFile, fp)
            IN  /\ calls' = calls \o c.log
                /\ Return(c.err)
    ELSE ipc' = next /\ UNCHANGED <<calls, ierr>>

\* if debugFlags&flag == flag { kernel; dumpDebugBuffer; if err != nil return }
CaptureStep(flag, kernelOp, kernelArgs, imgFile, next) ==
    IF HasFlag(IntegratorFlags, flag)
    THEN \E fp \in FailPoints :
            LET c == Capture(kernelOp, kernelArgs, imgFile, fp)
            IN  /\ calls' = calls \o c.log
                /\ IF c.err # Nil THEN Return(c.err)
                   ELSE ipc' = next /\ ierr' = ierr
    ELSE ipc' = next /\ UNCHANGED <<calls, ierr>>

\* Mutant: the two branches of the device test are exchanged.
PrimaryQueryOpExchanged == IF devType = GpuDevice THEN "RayIntersectionQuery"
                           ELSE "RayPacketIntersectionQuery"

PrimaryQueryOp == IF devType = GpuDevice THEN "RayPacketIntersectionQuery"
                  ELSE "RayIntersectionQuery"

\* lines 96-114
PrimaryIntersect ==
    /\ InIntegrator /\ ipc = "entry"
    /\ activeRayBuf' = 0
    /\ bounce' = 0
    /\ flips' = 0
    /\ DeviceCall(PrimaryQueryOp, <<0, NumPixels(cur)>>, "dbgDepth")
    /\ UNCHANGED <<sceneVars, copyVars, tracerVars, rng>>

\* lines 116-122
DebugDepth ==
    /\ InIntegrator /\ ipc = "dbgDepth"
    /\ CaptureStep(PrimaryRayIntersectionDepth, "DebugRayIntersectionDepth",
                   <<activeRayBuf>>,
                   <<"debug-primary-intersection-depth.png", <<>> >>,
                   "dbgNormals")
    /\ UNCHANGED <<sceneVars, copyVars, tracerVars, activeRayBuf, bounce, rng, flips>>

\* lines 123-129
DebugNormals ==
    /\ InIntegrator /\ ipc = "dbgNormals"
    /\ CaptureStep(PrimaryRayIntersectionNormals, "DebugRayIntersectionNormals",
                   <<activeRayBuf>>,
                   <<"debug-primary-intersection-normals.png", <<>> >>,
                   "loop")
    /\ UNCHANGED <<sceneVars, copyVars, tracerVars, activeRayBuf, bounce, rng, flips>>

\* line 132 (the loop condition) and line 211
\* Mutant: the loop runs one bounce too many.
LoopContinuesOffByOne(b, numBounces) == b <= numBounces

\* for bounce = 0; bounce < blockReq.NumBounces; bounce++
LoopContinues(b, numBounces) == b < numBounces

LoopCond ==
    /\ InIntegrator /\ ipc = "loop"
    /\ IF LoopContinues(bounce, cur.NumBounces)
       THEN ipc' = "miss" /\ ierr' = ierr
       ELSE Return(Nil)
    /\ UNCHANGED <<sceneVars, copyVars, tracerVars, activeRayBuf, bounce, calls, rng, flips>>

\* Mutant: the -1 sentinel is not tested.
HasBackgroundAlways == TRUE

\* tr.sceneData.SceneDiffuseMatIndex != -1
HasBackground == sceneDiffuseMatIndex # -1

\* Mutant: the bounce is not looked at; every bounce shades its misses with
\* the primary-ray kernel.
MissOpAlwaysPrimary(b) == "ShadePrimaryRayMisses"

MissOp(b) == IF b = 0 THEN "ShadePrimaryRayMisses" ELSE "ShadeIndirectRayMisses"

\* lines 133-143
ShadeMisses ==
    /\ InIntegrator /\ ipc = "miss"
    /\ IF HasBackground
       THEN DeviceCall(MissOp(bounce),
                       <<ToUint32(sceneDiffuseMatIndex), activeRayBuf, NumPixels(cur)>>,
                       "hits")
       ELSE ipc' = "hits" /\ UNCHANGED <<calls, ierr>>
    /\ UNCHANGED <<sceneVars, copyVars, tracerVars, activeRayBuf, bounce, rng, flips>>

\* lines 145-149
ShadeHits ==
    /\ InIntegrator /\ ipc = "hits"
    /\ rng' = rng + 1
    /\ DeviceCall("ShadeHits",
                  <<bounce, cur.MinBouncesForRR, rng, NumEmissives,
                    activeRayBuf, NumPixels(cur)>>,
                  "dbgThroughput")
    /\ UNCHANGED <<sceneVars, copyVars, tracerVars, activeRayBuf, bounce, flips>>

\* lines 151-157
DebugThroughput ==
    /\ InIntegrator /\ ipc = "dbgThroughput"
    /\ CaptureStep(Throughput, "DebugThroughput", <<>>,
                   <<"debug-throughput-%03d.png", Fmt03(bounce)>>, "occlusion")
    /\ UNCHANGED <<sceneVars, copyVars, tracerVars, activeRayBuf, bounce, rng, flips>>

OcclusionRayBuf == 2

\* lines 159-163
OcclusionTest ==
    /\ InIntegrator /\ ipc = "occlusion"
    /\ DeviceCall("RayIntersectionTest", <<OcclusionRayBuf, NumPixels(cur)>>, "accumulate")
    /\ UNCHANGED <<sceneVars, copyVars, tracerVars, activeRayBuf, bounce, rng, flips>>

\* lines 165-168
AccumulateEmissive ==
    /\ InIntegrator /\ ipc = "accumulate"
    /\ DeviceCall("AccumulateEmissiveSamples", <<OcclusionRayBuf, NumPixels(cur)>>, "dbgAll")
    /\ UNCHANGED <<sceneVars, copyVars, tracerVars, activeRayBuf, bounce, rng, flips>>

\* lines 170-176
DebugEmissiveAll ==
    /\ InIntegrator /\ ipc = "dbgAll"
    /\ CaptureStep(AllEmissiveSamples, "DebugEmissiveSamples", <<0, 0>>,
                   <<"debug-emissive-all-%03d.png", Fmt03(bounce)>>, "dbgVis")
    /\ UNCHANGED <<sceneVars, copyVars, tracerVars, activeRayBuf, bounce, rng, flips>>

\* lines 178-184
DebugEmissiveVis ==
    /\ InIntegrator /\ ipc = "dbgVis"
    /\ CaptureStep(VisibleEmissiveSamples, "DebugEmissiveSamples", <<1, 0>>,
                   <<"debug-emissive-vis-%03d.png", Fmt03(bounce)>>, "dbgOcc")
    /\ UNCHANGED <<sceneVars, copyVars, tracerVars, activeRayBuf, bounce, rng, flips>>

\* lines 186-192
DebugEmissiveOcc ==
    /\ InIntegrator /\ ipc = "dbgOcc"
    /\ CaptureStep(OccludedEmissiveSamples, "DebugEmissiveSamples", <<0, 1>>,
                   <<"debug-emissive-occ-%03d.png", Fmt03(bounce)>>, "dbgAccum")
    /\ UNCHANGED <<sceneVars, copyVars, tracerVars, activeRayBuf, bounce, rng, flips>>

\* lines 194-200
DebugAccumulator ==
    /\ InIntegrator /\ ipc = "dbgAccum"
    /\ CaptureStep(Accumulator, "DebugAccumulator", <<>>,
                   <<"debug-accumulator-%03d.png", Fmt03(bounce)>>, "swap")
    /\ UNCHANGED <<sceneVars, copyVars, tracerVars, activeRayBuf, bounce, rng, flips>>

\* Mutant: the swap leaves the active buffer where it is.
FlipRayBufStuck(active) == active

\* Mutant: the swap steps to the next buffer index instead of toggling.
FlipRayBufIncrement(active) == ToUint32(active + 1)

\* activeRayBuf = 1 - activeRayBuf
FlipRayBuf(active) == ToUint32(1 - active)

\* Mutant: the swap and re-intersection also follow the final bounce.
MoreBouncesAfterLast(b, numBounces) == b < numBounces

\* bounce+1 < blockReq.NumBounces
MoreBounces(b, numBounces) == ToUint32(b + 1) < numBounces

\* Mutant: the next bounce's rays are intersected before the buffers are
\* swapped, so the query runs on the buffer the bounce just shaded.
SwapAndIntersectQueryFirst ==
    /\ InIntegrator /\ ipc = "swap"
    /\ IF MoreBounces(bounce, cur.NumBounces)
       THEN /\ \E res \in {Nil, ErrDevice} :
                  /\ calls' = Append(calls,
                                Call("RayIntersectionQuery",
                                     <<activeRayBuf, NumPixels(cur)>>, "", res))
                  /\ IF res # Nil
                     THEN /\ Return(res)
                          /\ UNCHANGED <<bounce, activeRayBuf, flips>>
                     ELSE /\ ipc' = "loop" /\ ierr' = ierr
                          /\ activeRayBuf' = FlipRayBuf(activeRayBuf)
                          /\ flips' = flips + 1
                          /\ bounce' = ToUint32(bounce + 1)
       ELSE /\ ipc' = "loop"
            /\ bounce' = ToUint32(bounce + 1)
            /\ UNCHANGED <<activeRayBuf, flips, calls, ierr>>
    /\ UNCHANGED <<sceneVars, copyVars, tracerVars, rng>>

\* lines 202-209, then the loop's bounce++
SwapAndIntersect ==
    /\ InIntegrator /\ ipc = "swap"
    /\ IF MoreBounces(bounce, cur.NumBounces)
       THEN /\ activeRayBuf' = FlipRayBuf(activeRayBuf)
            /\ flips' = flips + 1
            /\ \E res \in {Nil, ErrDevice} :
                  /\ calls' = Append(calls,
                                Call("RayIntersectionQuery",
                                     <<FlipRayBuf(activeRayBuf), NumPixels(cur)>>,
                                     "", res))
                  /\ IF res # Nil
                     THEN Return(res) /\ bounce' = bounce
                     ELSE ipc' = "loop" /\ ierr' = ierr
                          /\ bounce' = ToUint32(bounce + 1)
       ELSE /\ ipc' = "loop"
            /\ bounce' = ToUint32(bounce + 1)
            /\ UNCHANGED <<activeRayBuf, flips, calls, ierr>>
    /\ UNCHANGED <<sceneVars, copyVars, tracerVars, rng>>

IntegratorNext ==
    \/ PrimaryIntersect
    \/ DebugDepth
    \/ DebugNormals
    \/ LoopCond
    \/ ShadeMisses
    \/ ShadeHits
    \/ DebugThroughput
    \/ OcclusionTest
    \/ AccumulateEmissive
    \/ DebugEmissiveAll
    \/ DebugEmissiveVis
    \/ DebugEmissiveOcc
    \/ DebugAccumulator
    \/ SwapAndIntersect

\* ------------------------------------------------------------ the stages
\* Mutant: the runner goes on to the next stage whatever the stage returned.
AfterStageIgnoringError(name, err, next) ==
    /\ stagesRun' = Append(stagesRun, <<name, err>>)
    /\ stage' = next /\ runErr' = runErr

\* How the runner goes on after a stage returned err: abort on an error.
AfterStage(name, err, next) ==
    /\ stagesRun' = Append(stagesRun, <<name, err>>)
    /\ IF err # Nil
       THEN stage' = "signal" /\ runErr' = err
       ELSE stage' = next /\ runErr' = runErr

\* A stage that is one device call: return tr.resources.<op>(blockReq).
SingleCallStage(name, op, next) ==
    \E res \in {Nil, ErrDevice} :
        /\ calls' = <<Call(op, <<>>, "", res)>>
        /\ AfterStage(name, res, next)

\* ClearAccumulator(), lines 72-77
RunReset ==
    /\ stage = "Reset"
    /\ pipeline.Reset = "ClearAccumulator"
    /\ SingleCallStage("Reset", "ClearFrameAccumulator", "PrimaryRayGenerator")
    /\ UNCHANGED <<sceneVars, copyVars, queue, enqueued, running, cur, ppIdx, doneChan,
                   errChan, started, ipc, activeRayBuf, bounce, ierr, rng, flips>>

\* PerspectiveCamera(), lines 79-84
RunPrimaryRayGenerator ==
    /\ stage = "PrimaryRayGenerator"
    /\ pipeline.PrimaryRayGenerator = "PerspectiveCamera"
    /\ SingleCallStage("PrimaryRayGenerator", "GeneratePrimaryRays", "Integrator")
    /\ ipc' = (IF stage' = "Integrator" THEN "entry" ELSE ipc)
    /\ UNCHANGED <<sceneVars, copyVars, queue, enqueued, running, cur, ppIdx, doneChan,
                   errChan, started, activeRayBuf, bounce, ierr, rng, flips>>

\* The integrator closure has returned ierr to the runner; its locals are gone.
IntegratorReturned ==
    /\ stage = "Integrator" /\ ipc = "done"
    /\ pipeline.Integrator.fn = "MonteCarloIntegrator"
    /\ AfterStage("Integrator", ierr, "PostProcess")
    /\ ppIdx' = 1
    /\ ipc' = "idle"
    /\ activeRayBuf' = 0
    /\ bounce' = 0
    /\ flips' = 0
    /\ UNCHANGED <<sceneVars, copyVars, queue, enqueued, running, cur, doneChan, errChan,
                   started, ierr, calls, rng>>

\* SaveFrameBuffer(imgFile), lines 215-234: the error and the host calls.
SaveFrameBufferFailPoints == SUBSET {"create", "read", "encode"}

SaveFrameBuffer(imgFile, fp) ==
    LET io     == HostResults(fp)
        create == Call("os.Create", <<>>, imgFile, io.create)
        read   == Call("FrameBuffer.ReadData", <<>>, "", io.read)
        encode == Call("png.Encode", <<>>, imgFile, io.encode)
    IN  IF io.create # Nil
        THEN [err |-> io.create, effects |-> <<create>>]
        ELSE IF io.read # Nil
        THEN [err |-> io.read, effects |-> <<create, read>>]
        ELSE [err |-> io.encode, effects |-> <<create, read, encode>>]

\* After PostProcess[ppIdx] succeeded: the next one, or the end of the run.
AfterPostProcess == IF ppIdx < Len(pipeline.PostProcess) THEN "PostProcess" ELSE "signal"

\* PostProcess[ppIdx]: TonemapSimpleReinhard() (lines 86-91) or SaveFrameBuffer
RunPostProcess ==
    /\ stage = "PostProcess"
    /\ ppIdx <= Len(pipeline.PostProcess)
    /\ LET st == pipeline.PostProcess[ppIdx]
       IN  IF st.fn = "TonemapSimpleReinhard"
           THEN SingleCallStage(st.fn, "TonemapSimpleReinhard", AfterPostProcess)
           ELSE \E fp \in SaveFrameBufferFailPoints :
                   LET r == SaveFrameBuffer(st.file, fp)
                   IN  /\ calls' = r.effects
                       /\ AfterStage(st.fn, r.err, AfterPostProcess)
    /\ ppIdx' = ppIdx + 1
    /\ UNCHANGED <<sceneVars, copyVars, queue, enqueued, running, cur, doneChan, errChan,
                   started, ipc, activeRayBuf, bounce, ierr, rng, flips>>

\* ------------------------------------------------------------- the tracer
BlockRequest(id, blockH, numBounces) ==
    [id |-> id, BlockH |-> blockH, FrameW |-> 2, FrameH |-> 2,
     NumBounces |-> numBounces, MinBouncesForRR |-> 0]

NoRequest == BlockRequest(0, 0, 0)

\* Enqueue(blockReq): accepts the request and returns.
EnqueueAccepts == TRUE

Enqueue(blockH, numBounces) ==
    /\ Len(enqueued) < MaxRequests
    /\ EnqueueAccepts
    /\ enqueued' = Append(enqueued, BlockRequest(Len(enqueued) + 1, blockH, numBounces))
    /\ queue' = Append(queue, BlockRequest(Len(enqueued) + 1, blockH, numBounces))
    /\ UNCHANGED <<sceneVars, copyVars, running, cur, stage, ppIdx, runErr, doneChan,
                   errChan, started, stagesRun, ipc, activeRayBuf, bounce, ierr,
                   calls, rng, flips>>

\* Mutant: the worker takes the next request while a run is in progress.
WorkerAlwaysFree == TRUE

\* The worker runs one pipeline at a time
WorkerFree == running = {}

\* and takes the requests in the order they were enqueued.
NextRequest(q) == Head(q)
Remaining(q) == Tail(q)

StartRun ==
    /\ WorkerFree
    /\ queue # <<>>
    /\ cur' = NextRequest(queue)
    /\ queue' = Remaining(queue)
    /\ running' = running \cup {NextRequest(queue).id}
    /\ started' = Append(started, NextRequest(queue).id)
    /\ stage' = "Reset"
    /\ stagesRun' = <<>>
    /\ calls' = <<>>
    /\ runErr' = Nil
    /\ ppIdx' = 1
    /\ ipc' = "idle"
    /\ ierr' = Nil
    /\ UNCHANGED <<sceneVars, copyVars, enqueued, doneChan, errChan, activeRayBuf, bounce,
                   rng, flips>>

\* The run is over: one signal on the request's DoneChan or ErrChan.
SignalDone(req) == doneChan' = [doneChan EXCEPT ![req.id] = Append(@, req.BlockH)]
                   /\ errChan' = errChan
\* Mutant: a failed run also reports its rows as completed.
SignalErrorAndDone(req, err) ==
    /\ errChan' = [errChan EXCEPT ![req.id] = Append(@, err)]
    /\ doneChan' = [doneChan EXCEPT ![req.id] = Append(@, req.BlockH)]

SignalError(req, err) == errChan' = [errChan EXCEPT ![req.id] = Append(@, err)]
                         /\ doneChan' = doneChan

Signal ==
    /\ stage = "signal"
    /\ IF runErr = Nil THEN SignalDone(cur) ELSE SignalError(cur, runErr)
    /\ running' = running \ {cur.id}
    /\ stage' = "idle"
    /\ calls' = <<>>
    /\ ppIdx' = 1
    /\ UNCHANGED <<sceneVars, copyVars, queue, enqueued, cur, runErr, started,
                   stagesRun, ipc, activeRayBuf, bounce, ierr, rng, flips>>

\* ------------------------------------------------------- specifications
\* ------------------------------------ CopyFrameBufferToOpenGLTexture
MaxCopyCalls == 3

\* var fbBuf []byte: a slice is nil (id 0) or an allocation with an identity
\* and a length.
NilBuf == [id |-> 0, len |-> 0]

\* The frame buffer holds four bytes per pixel; a frame has at least one pixel.
FrameBytes(w, h) == 4 * w * h
FrameBufferSizes == {FrameBytes(1, 1), FrameBytes(2, 1), FrameBytes(2, 2)}

\* make([]byte, n): an allocation distinct from every earlier one.
Make(n) ==
    [id  |-> 1 + Cardinality({k \in 1..Len(copies) : copies[k].allocated}),
     len |-> n]

\* Mutant: the staging buffer is replaced only when it is too small.
NeedsAllocOnlyToGrow(buf, size) == buf = NilBuf \/ buf.len < size

\* fbBuf == nil || len(fbBuf) != fbSizeInBytes
NeedsAlloc(buf, size) == buf = NilBuf \/ buf.len # size

\* time.Since(start) of a call that ran to its end.
Elapsed == {0, 1}

\* One call of the stage closure, lines 238-254.
CopyFrameBufferToOpenGLTexture ==
    /\ Len(copies) < MaxCopyCalls
    /\ LET fbSizeInBytes == frameBufferSize
           buf == IF NeedsAlloc(fbBuf, fbSizeInBytes)
                  THEN Make(fbSizeInBytes) ELSE fbBuf
       IN  /\ fbBuf' = buf
           /\ \E err \in {Nil, ErrRead}, d \in Elapsed :
                 copies' = Append(copies,
                     [before    |-> fbBuf,
                      size      |-> fbSizeInBytes,
                      allocated |-> NeedsAlloc(fbBuf, fbSizeInBytes),
                      readSize  |-> fbSizeInBytes,
                      readBuf   |-> buf,
                      uploaded  |-> err = Nil,
                      dur       |-> IF err # Nil THEN 0 ELSE d,
                      err       |-> err])
    /\ UNCHANGED <<sceneVars, tracerVars, integratorVars, frameBufferSize>>

\* Between two calls the frame buffer may have been set up for another frame
\* size.
ResizeFrameBuffer ==
    /\ Len(copies) < MaxCopyCalls
    /\ \E n \in FrameBufferSizes \ {frameBufferSize} : frameBufferSize' = n
    /\ UNCHANGED <<sceneVars, tracerVars, integratorVars, fbBuf, copies>>

AllFlags == PrimaryRayIntersectionDepth + PrimaryRayIntersectionNormals
            + AllEmissiveSamples + VisibleEmissiveSamples
            + OccludedEmissiveSamples + Throughput + Accumulator + FrameBuffer

\* Every combination of the eight capture flags.
FlagSets == {2 * k : k \in 0..255}
\* The sets of the seven flags that MonteCarloIntegrator tests.
IntegratorFlagSets == {2 * k : k \in 0..127}

DeviceTypes == {GpuDevice, CpuDevice}
\* What the scheduler asks for in the tracer specification.
BlockHeights == {1, 2}
RequestBounces == {0, 1}
MatIndices == {-1, 0}
EmissiveCounts == {0, 2}

NoSignals == [i \in 1..(MaxRequests + 1) |-> <<>>]

\* A tracer attached to a scene, with nothing enqueued yet.
Init ==
    /\ debugFlags \in {NoDebug, FrameBuffer, AllFlags}
    /\ pipeline = DefaultPipeline(debugFlags)
    /\ devType \in DeviceTypes
    /\ sceneDiffuseMatIndex = 0
    /\ numEmissivePrimitives = 2
    /\ queue = <<>>
    /\ enqueued = <<>>
    /\ running = {}
    /\ cur = NoRequest
    /\ stage = "idle"
    /\ ppIdx = 1
    /\ runErr = Nil
    /\ doneChan = NoSignals
    /\ errChan = NoSignals
    /\ started = <<>>
    /\ stagesRun = <<>>
    /\ ipc = "idle"
    /\ activeRayBuf = 0
    /\ bounce = 0
    /\ ierr = Nil
    /\ calls = <<>>
    /\ rng = 0
    /\ flips = 0
    /\ fbBuf = NilBuf
    /\ frameBufferSize = FrameBytes(2, 2)
    /\ copies = <<>>

Next ==
    \/ \E h \in BlockHeights, n \in RequestBounces : Enqueue(h, n)
    \/ StartRun
    \/ RunReset
    \/ RunPrimaryRayGenerator
    \/ IntegratorNext
    \/ IntegratorReturned
    \/ RunPostProcess
    \/ Signal

Spec == Init /\ [][Next]_vars

\* One integrator call: the worker has run Reset and PrimaryRayGenerator for
\* the first request and is about to call the Integrator stage.
IntegratorInit ==
    /\ debugFlags \in IntegratorFlagSets
    /\ pipeline = DefaultPipeline(debugFlags)
    /\ devType \in DeviceTypes
    /\ sceneDiffuseMatIndex \in MatIndices
    /\ numEmissivePrimitives \in EmissiveCounts
    /\ queue = <<>>
    /\ \E n \in 0..MaxBounces : enqueued = <<BlockRequest(1, 1, n)>>
    /\ running = {1}
    /\ cur = enqueued[1]
    /\ stage = "Integrator"
    /\ ppIdx = 1
    /\ runErr = Nil
    /\ doneChan = NoSignals
    /\ errChan = NoSignals
    /\ started = <<1>>
    /\ stagesRun = << <<"Reset", Nil>>, <<"PrimaryRayGenerator", Nil>> >>
    /\ ipc = "entry"
    /\ activeRayBuf = 0
    /\ bounce = 0
    /\ ierr = Nil
    /\ calls = <<Call("GeneratePrimaryRays", <<>>, "", Nil)>>
    /\ rng = 0
    /\ flips = 0
    /\ fbBuf = NilBuf
    /\ frameBufferSize = FrameBytes(2, 2)
    /\ copies = <<>>

IntegratorSpec == IntegratorInit /\ [][IntegratorNext]_vars

\* One integrator call for requests of several frame widths, block heights
\* and russian-roulette thresholds.
FrameWidths == {2, 3}
MinBounces == {0, 2}
RequestFlagSets == {NoDebug, Throughput + Accumulator}

RequestInit ==
    /\ debugFlags \in RequestFlagSets
    /\ pipeline = DefaultPipeline(debugFlags)
    /\ devType \in DeviceTypes
    /\ sceneDiffuseMatIndex \in MatIndices
    /\ numEmissivePrimitives \in EmissiveCounts
    /\ queue = <<>>
    /\ \E n \in 0..MaxBounces, h \in BlockHeights, w \in FrameWidths, m \in MinBounces :
          enqueued = << [BlockRequest(1, h, n) EXCEPT !.FrameW = w,
                                                      !.MinBouncesForRR = m] >>
    /\ running = {1}
    /\ cur = enqueued[1]
    /\ stage = "Integrator"
    /\ ppIdx = 1
    /\ runErr = Nil
    /\ doneChan = NoSignals
    /\ errChan = NoSignals
    /\ started = <<1>>
    /\ stagesRun = << <<"Reset", Nil>>, <<"PrimaryRayGenerator", Nil>> >>
    /\ ipc = "entry"
    /\ activeRayBuf = 0
    /\ bounce = 0
    /\ ierr = Nil
    /\ calls = <<Call("GeneratePrimaryRays", <<>>, "", Nil)>>
    /\ rng = 0
    /\ flips = 0
    /\ fbBuf = NilBuf
    /\ frameBufferSize = FrameBytes(2, 2)
    /\ copies = <<>>

RequestSpec == RequestInit /\ [][IntegratorNext]_vars

\* One integrator call of a tracer configured with any of the 256 sets of
\* capture flags, on one scene and device.
FlagRunBounces == {0, 1, 2}

FlagInit ==
    /\ debugFlags \in FlagSets
    /\ pipeline = DefaultPipeline(debugFlags)
    /\ devType = GpuDevice
    /\ sceneDiffuseMatIndex = 0
    /\ numEmissivePrimitives = 2
    /\ queue = <<>>
    /\ \E n \in FlagRunBounces : enqueued = <<BlockRequest(1, 1, n)>>
    /\ running = {1}
    /\ cur = enqueued[1]
    /\ stage = "Integrator"
    /\ ppIdx = 1
    /\ runErr = Nil
    /\ doneChan = NoSignals
    /\ errChan = NoSignals
    /\ started = <<1>>
    /\ stagesRun = << <<"Reset", Nil>>, <<"PrimaryRayGenerator", Nil>> >>
    /\ ipc = "entry"
    /\ activeRayBuf = 0
    /\ bounce = 0
    /\ ierr = Nil
    /\ calls = <<Call("GeneratePrimaryRays", <<>>, "", Nil)>>
    /\ rng = 0
    /\ flips = 0
    /\ fbBuf = NilBuf
    /\ frameBufferSize = FrameBytes(2, 2)
    /\ copies = <<>>

FlagSpec == FlagInit /\ [][IntegratorNext]_vars

\* One CopyFrameBufferToOpenGLTexture stage, called again and again by an
\* idle tracer whose frame buffer may change size in between.
CopyInit ==
    /\ debugFlags = NoDebug
    /\ pipeline = DefaultPipeline(debugFlags)
    /\ devType = GpuDevice
    /\ sceneDiffuseMatIndex = 0
    /\ numEmissivePrimitives = 2
    /\ queue = <<>>
    /\ enqueued = <<>>
    /\ running = {}
    /\ cur = NoRequest
    /\ stage = "idle"
    /\ ppIdx = 1
    /\ runErr = Nil
    /\ doneChan = NoSignals
    /\ errChan = NoSignals
    /\ started = <<>>
    /\ stagesRun = <<>>
    /\ ipc = "idle"
    /\ activeRayBuf = 0
    /\ bounce = 0
    /\ ierr = Nil
    /\ calls = <<>>
    /\ rng = 0
    /\ flips = 0
    /\ fbBuf = NilBuf
    /\ frameBufferSize \in FrameBufferSizes
    /\ copies = <<>>

CopyNext == CopyFrameBufferToOpenGLTexture \/ ResizeFrameBuffer

CopySpec == CopyInit /\ [][CopyNext]_vars

\* ------------------------------------------------------ reading the log
IntersectOps == {"RayPacketIntersectionQuery", "RayIntersectionQuery"}
MissOps == {"ShadePrimaryRayMisses", "ShadeIndirectRayMisses"}
ShadingOps == MissOps \cup {"ShadeHits", "RayIntersectionTest",
                            "AccumulateEmissiveSamples"}
ProductionOps == IntersectOps \cup ShadingOps

CallsOf(ops) == SelectSeq(calls, LAMBDA c : c.op \in ops)
Count(ops) == Len(CallsOf(ops))
LastCall == calls[Len(calls)]
Max(a, b) == IF a > b THEN a ELSE b

\* The integrator is past its first statement.
Entered == InIntegrator /\ ipc # "entry"
Returned == InIntegrator /\ ipc = "done"
BodyPcs == {"miss", "hits", "dbgThroughput", "occlusion", "accumulate",
            "dbgAll", "dbgVis", "dbgOcc", "dbgAccum", "swap"}

\* C1: with numBounces = 0 the integrator issues exactly one intersection
\* query, the primary one on buffer 0, and no miss-shading, hit-shading,
\* occlusion-test or accumulation call; with no debug flag set it returns nil
\* when that query succeeded.
C1_ZeroBounces ==
    (InIntegrator /\ cur.NumBounces = 0) =>
        /\ Count(IntersectOps) = (IF ipc = "entry" THEN 0 ELSE 1)
        /\ Count(ShadingOps) = 0
        /\ Entered => /\ CallsOf(IntersectOps)[1].op = PrimaryQueryOp
                      /\ CallsOf(IntersectOps)[1].args = <<0, NumPixels(cur)>>
        /\ (Returned /\ debugFlags = NoDebug /\ CallsOf(IntersectOps)[1].res = Nil)
              => ierr = Nil

C1_Witness ==
    /\ Returned /\ cur.NumBounces = 0 /\ debugFlags = NoDebug
    /\ ierr = Nil /\ Count(IntersectOps) = 1 /\ Len(calls) = 1

\* C2: the active ray buffer index starts at 0 and is flipped exactly once at
\* the end of every bounce that another bounce follows, never after the final
\* one: inside bounce b it has been flipped b times and equals b mod 2, an
\* error-free run ends after max(numBounces - 1, 0) flips, and the hit-shading
\* calls use the buffers 0, 1, 0, 1, ... in turn.
C2_PingPong ==
    InIntegrator =>
        /\ ipc \in {"dbgDepth", "dbgNormals"} => activeRayBuf = 0 /\ flips = 0
        /\ ipc \in BodyPcs => activeRayBuf = bounce % 2 /\ flips = bounce
        /\ (Returned /\ ierr = Nil) =>
              /\ flips = Max(cur.NumBounces - 1, 0)
              /\ activeRayBuf = Max(cur.NumBounces - 1, 0) % 2
        /\ Entered => \A k \in 1..Count({"ShadeHits"}) :
                         CallsOf({"ShadeHits"})[k].args[5] = (k - 1) % 2

C2_Witness ==
    /\ Returned /\ ierr = Nil /\ cur.NumBounces = 3
    /\ flips = 2 /\ activeRayBuf = 0 /\ Count({"ShadeHits"}) = 3

\* C3: when SceneDiffuseMatIndex is -1 no miss-shading call is ever made,
\* whatever the bounce count and the debug flags, and an error the integrator
\* returns is the error of the call it last made, never one raised for the
\* missing background material.
C3_NoBackgroundNoMissShading ==
    (Entered /\ sceneDiffuseMatIndex = -1) =>
        /\ Count(MissOps) = 0
        /\ ierr # Nil => LastCall.res = ierr

C3_Witness ==
    /\ Returned /\ sceneDiffuseMatIndex = -1 /\ ierr = Nil
    /\ cur.NumBounces = 2 /\ Count({"ShadeHits"}) = 2 /\ debugFlags = AllFlags - FrameBuffer

\* C4: a production device call that returns an error is the last call the
\* integrator makes, and the integrator has returned with that same error.
C4_ErrorAborts ==
    Entered =>
        \A i \in 1..Len(calls) :
            (calls[i].op \in ProductionOps /\ calls[i].res # Nil) =>
                /\ i = Len(calls)
                /\ ipc = "done"
                /\ ierr = calls[i].res

\* Hit shading fails at bounce 1 of 3.
C4_Witness ==
    /\ Returned /\ cur.NumBounces = 3 /\ ierr = ErrDevice
    /\ LastCall.op = "ShadeHits" /\ LastCall.args[1] = 1 /\ LastCall.res = ErrDevice

\* C5: an error-free run of N >= 1 bounces on a scene with a background
\* material makes 1 primary intersection, N miss-shading, N ShadeHits,
\* N RayIntersectionTest, N AccumulateEmissiveSamples calls and N - 1
\* re-intersection queries, whatever the number of emissive primitives.
C5_CallCounts ==
    (Returned /\ ierr = Nil /\ cur.NumBounces >= 1 /\ sceneDiffuseMatIndex # -1) =>
        LET N == cur.NumBounces
        IN  /\ Count(IntersectOps) = 1 + (N - 1)
            /\ CallsOf(ProductionOps)[1].op = PrimaryQueryOp
            /\ \A k \in 2..Count(IntersectOps) :
                  CallsOf(IntersectOps)[k].op = "RayIntersectionQuery"
            /\ Count(MissOps) = N
            /\ Count({"ShadeHits"}) = N
            /\ Count({"RayIntersectionTest"}) = N
            /\ Count({"AccumulateEmissiveSamples"}) = N

C5_Witness ==
    /\ Returned /\ ierr = Nil /\ cur.NumBounces = 3 /\ sceneDiffuseMatIndex # -1
    /\ numEmissivePrimitives = 0 /\ Count({"AccumulateEmissiveSamples"}) = 3
    /\ Count(IntersectOps) = 3

\* The production calls of the log, without their results.
CallView(c) == [op |-> c.op, args |-> c.args]
Production ==
    LET P == CallsOf(ProductionOps)
    IN  [i \in 1..Len(P) |-> CallView(P[i])]
AllProductionCallsSucceeded ==
    \A i \in 1..Len(calls) : calls[i].op \in ProductionOps => calls[i].res = Nil

\* The production calls of a complete run, from the request, the scene and the
\* device alone: the debug flags are no part of it.
ExpectedBounce(b) ==
    LET np  == cur.FrameW * cur.BlockH
        buf == b % 2
    IN  (IF sceneDiffuseMatIndex # -1
         THEN << [op   |-> IF b = 0 THEN "ShadePrimaryRayMisses"
                           ELSE "ShadeIndirectRayMisses",
                  args |-> <<sceneDiffuseMatIndex, buf, np>>] >>
         ELSE <<>>)
        \o << [op |-> "ShadeHits",
               args |-> <<b, cur.MinBouncesForRR, b, numEmissivePrimitives, buf, np>>],
              [op |-> "RayIntersectionTest", args |-> <<2, np>>],
              [op |-> "AccumulateEmissiveSamples", args |-> <<2, np>>] >>
        \o (IF b + 1 < cur.NumBounces
            THEN << [op |-> "RayIntersectionQuery", args |-> <<(b + 1) % 2, np>>] >>
            ELSE <<>>)

RECURSIVE ExpectedFrom(_)
ExpectedFrom(b) ==
    IF b >= cur.NumBounces THEN <<>> ELSE ExpectedBounce(b) \o ExpectedFrom(b + 1)

ExpectedProduction ==
    << [op   |-> IF devType = GpuDevice THEN "RayPacketIntersectionQuery"
                 ELSE "RayIntersectionQuery",
        args |-> <<0, cur.FrameW * cur.BlockH>>] >>
    \o ExpectedFrom(0)

IsPrefix(s, t) == Len(s) <= Len(t) /\ s = SubSeq(t, 1, Len(s))

\* C6 as stated: whatever debug flags are set, a run whose production calls
\* all succeed issues the production calls of the run with no flag set, with
\* the same arguments.
C6_FlagsNeverChangeProduction ==
    (Returned /\ AllProductionCallsSucceeded) => Production = ExpectedProduction

\* C6 as amended: whatever debug flags are set, the production calls issued so
\* far are a prefix of those of the run with no flag set, and a run in which no
\* capture failed (it returned nil) issues exactly those calls.
C6_FlagsChangeProductionOnlyByAborting ==
    Entered =>
        LET issued == Production
            ref    == ExpectedProduction
        IN  /\ IsPrefix(issued, ref)
            /\ (Returned /\ ierr = Nil) => issued = ref

C6_Witness ==
    /\ Returned /\ ierr = Nil /\ debugFlags = AllFlags - FrameBuffer
    /\ cur.NumBounces = 2
    /\ Production = ExpectedProduction /\ Len(calls) > Len(Production)

\* ------------------------------------------------------------ the tracer
Signals(i) == Len(doneChan[i]) + Len(errChan[i])
Started(i) == \E k \in 1..Len(started) : started[k] = i

\* C7: every request gets exactly one signal, a completion or an error, once,
\* after its run has ended (never while it is queued or running); a completion
\* carries the request's BlockH; when the tracer has nothing left to do every
\* enqueued request has its signal.
C7_ExactlyOneSignal ==
    /\ \A i \in 1..Len(enqueued) :
          /\ Signals(i) <= 1
          /\ Signals(i) = 1 <=> (Started(i) /\ i \notin running)
          /\ Signals(i) = 1 => (cur.id = i => stage = "idle" /\ ipc \in {"idle", "done"})
          /\ doneChan[i] # <<>> => doneChan[i] = <<enqueued[i].BlockH>>
    /\ \A i \in (Len(enqueued) + 1)..MaxRequests : Signals(i) = 0
    /\ (queue = <<>> /\ running = {}) => \A i \in 1..Len(enqueued) : Signals(i) = 1

C7_Witness ==
    /\ queue = <<>> /\ running = {} /\ Len(enqueued) = 2
    /\ doneChan[1] = <<2>> /\ errChan[1] = <<>>
    /\ errChan[2] = <<ErrDevice>> /\ doneChan[2] = <<>>

\* The stages of the pipeline in the order the runner calls them.
StageOrder ==
    <<"Reset", "PrimaryRayGenerator", "Integrator">>
    \o [k \in 1..Len(pipeline.PostProcess) |-> pipeline.PostProcess[k].fn]

\* C8: the stages run for a request are an initial part of the pipeline, each
\* run once; only the last of them can have returned an error, and then the
\* run is over: no completion is signalled for the request and its error
\* signal carries that error, once.
C8_StageErrorAborts ==
    LET n == Len(stagesRun)
    IN  /\ n <= Len(StageOrder)
        /\ \A k \in 1..n : stagesRun[k][1] = StageOrder[k]
        /\ \A k \in 1..(n - 1) : stagesRun[k][2] = Nil
        /\ (n > 0 /\ stagesRun[n][2] # Nil) =>
              /\ stage \in {"signal", "idle"}
              /\ runErr = stagesRun[n][2]
              /\ doneChan[cur.id] = <<>>
              /\ errChan[cur.id] = (IF stage = "idle" THEN <<stagesRun[n][2]>> ELSE <<>>)

\* The integrator failed in a capture; the tonemap stage never ran.
C8_Witness ==
    /\ stage = "idle" /\ Len(stagesRun) = 3
    /\ stagesRun[3] = <<"Integrator", ErrEncode>>
    /\ errChan[cur.id] = <<ErrEncode>> /\ doneChan[cur.id] = <<>>

EnqueueSome == \E h \in BlockHeights, n \in RequestBounces : Enqueue(h, n)

\* C9: Enqueue is accepted whatever the worker is doing, the runs begin in
\* enqueue order, the queue holds the requests not yet begun in that order,
\* and at most one run is in progress at any time.
C9_InOrderNoOverlap ==
    /\ Len(enqueued) < MaxRequests => ENABLED EnqueueSome
    /\ \A k \in 1..Len(started) : started[k] = k
    /\ queue = SubSeq(enqueued, Len(started) + 1, Len(enqueued))
    /\ Cardinality(running) <= 1
    /\ running # {} => running = {cur.id}

\* The second request was enqueued while the first was in its integrator.
C9_Witness ==
    /\ Len(enqueued) = 2 /\ started = <<1>> /\ running = {1}
    /\ stage = "Integrator" /\ ipc = "occlusion" /\ queue = <<enqueued[2]>>

\* C10: DefaultPipeline(flags) has Reset = ClearAccumulator,
\* PrimaryRayGenerator = PerspectiveCamera, Integrator =
\* MonteCarloIntegrator(flags) and PostProcess = [tonemap], followed by the
\* framebuffer dump exactly when the FrameBuffer bit of flags is set.
C10_DefaultPipeline ==
    /\ pipeline.Reset = "ClearAccumulator"
    /\ pipeline.PrimaryRayGenerator = "PerspectiveCamera"
    /\ pipeline.Integrator = [fn |-> "MonteCarloIntegrator", debugFlags |-> debugFlags]
    /\ pipeline.PostProcess[1] = [fn |-> "TonemapSimpleReinhard", file |-> ""]
    /\ pipeline.PostProcess =
          (IF (debugFlags \div 256) % 2 = 1
           THEN << [fn |-> "TonemapSimpleReinhard", file |-> ""],
                   [fn |-> "SaveFrameBuffer", file |-> "debug-fb.png"] >>
           ELSE << [fn |-> "TonemapSimpleReinhard", file |-> ""] >>)

C10_Witness ==
    /\ debugFlags = FrameBuffer + Throughput
    /\ Len(pipeline.PostProcess) = 2
    /\ pipeline.PostProcess[2].fn = "SaveFrameBuffer"

\* ------------------------------------------------- the order inside a bounce
\* The production call that may directly follow a production call.
Follows(op) ==
    CASE op \in IntersectOps ->
            IF sceneDiffuseMatIndex # -1 THEN MissOps ELSE {"ShadeHits"}
      [] op \in MissOps -> {"ShadeHits"}
      [] op = "ShadeHits" -> {"RayIntersectionTest"}
      [] op = "RayIntersectionTest" -> {"AccumulateEmissiveSamples"}
      [] op = "AccumulateEmissiveSamples" -> {"RayIntersectionQuery"}

\* C11: the production calls come in the order of the loop body: an
\* intersection query is followed by the bounce's miss shading (on a scene
\* with a background material), that by ShadeHits, that by the
\* RayIntersectionTest on the occlusion buffer, that by
\* AccumulateEmissiveSamples, and that, only when the bounce is not the last,
\* by the query on the flipped buffer that opens the next bounce; a call is
\* followed by another only when it returned without error.
C11_BounceOrder ==
    Entered =>
        LET P == CallsOf(ProductionOps)
        IN  /\ Len(P) >= 1 /\ P[1].op \in IntersectOps
            /\ \A i \in 1..(Len(P) - 1) :
                  /\ P[i].res = Nil
                  /\ P[i + 1].op \in Follows(P[i].op)
                  /\ P[i].op = "RayIntersectionTest" => P[i].args[1] = OcclusionRayBuf
                  /\ P[i].op = "AccumulateEmissiveSamples" =>
                        \* P[i - 2] is the ShadeHits of the bounce that ends here
                        /\ P[i - 2].args[1] + 1 < cur.NumBounces
                        /\ P[i + 1].args[1] = 1 - P[i - 2].args[5]
                  /\ P[i + 1].op = "ShadeHits" =>
                        P[i + 1].args[1] = Len(SelectSeq(SubSeq(P, 1, i),
                                                 LAMBDA c : c.op = "ShadeHits"))
            /\ (Returned /\ ierr = Nil /\ cur.NumBounces >= 1) =>
                  /\ P[Len(P)].op = "AccumulateEmissiveSamples"
                  /\ P[Len(P) - 2].args[1] = cur.NumBounces - 1

\* Three error-free bounces on a scene with a background material.
C11_Witness ==
    /\ Returned /\ ierr = Nil /\ cur.NumBounces = 3 /\ sceneDiffuseMatIndex # -1
    /\ Count(ProductionOps) = 15
    /\ CallsOf(ProductionOps)[6].op = "RayIntersectionQuery"
    /\ CallsOf(ProductionOps)[6].args[1] = 1

\* ------------------------------------------------------------ miss shading
\* C12: on a scene with a background material the k-th miss-shading call is
\* the one of bounce k - 1: ShadePrimaryRayMisses for the first and
\* ShadeIndirectRayMisses for every later one, on that bounce's active buffer
\* (k - 1) mod 2; a bounce makes exactly one such call, before its ShadeHits;
\* an error-free run of N >= 1 bounces makes 1 primary-miss and N - 1
\* indirect-miss calls.
C12_MissShadingPerBounce ==
    (Entered /\ sceneDiffuseMatIndex # -1) =>
        LET M == CallsOf(MissOps)
            H == CallsOf({"ShadeHits"})
        IN  /\ \A k \in 1..Len(M) :
                  /\ M[k].op = (IF k = 1 THEN "ShadePrimaryRayMisses"
                                ELSE "ShadeIndirectRayMisses")
                  /\ M[k].args = <<sceneDiffuseMatIndex, (k - 1) % 2,
                                   cur.FrameW * cur.BlockH>>
            /\ \A k \in 1..Len(H) : H[k].args[5] = M[k].args[2]
            /\ Len(M) \in {Len(H), Len(H) + 1}
            /\ ipc \in (BodyPcs \ {"miss"}) =>
                  /\ Len(M) = bounce + 1
                  /\ M[Len(M)].args[2] = activeRayBuf
            /\ (Returned /\ ierr = Nil /\ cur.NumBounces >= 1) =>
                  /\ Count({"ShadePrimaryRayMisses"}) = 1
                  /\ Count({"ShadeIndirectRayMisses"}) = cur.NumBounces - 1

C12_Witness ==
    /\ Returned /\ ierr = Nil /\ cur.NumBounces = 3 /\ sceneDiffuseMatIndex # -1
    /\ Count({"ShadePrimaryRayMisses"}) = 1
    /\ Count({"ShadeIndirectRayMisses"}) = 2
    /\ CallsOf(MissOps)[2].args[2] = 1

\* ------------------------------------------------------------ buffer roles
\* The ray buffer a device call works on, by the position of that argument.
RayBufOf(c) ==
    CASE c.op \in IntersectOps -> c.args[1]
      [] c.op \in MissOps -> c.args[2]
      [] c.op = "ShadeHits" -> c.args[5]
      [] c.op \in {"RayIntersectionTest", "AccumulateEmissiveSamples"} -> c.args[1]

\* C13: activeRayBuf is 0 or 1 in every state; every RayIntersectionTest and
\* every AccumulateEmissiveSamples call works on buffer 2; the miss-shading,
\* hit-shading and intersection-query calls work on buffer 0 or 1, never on
\* the occlusion buffer, which the active index never equals.
C13_BufferRoles ==
    /\ activeRayBuf \in {0, 1}
    /\ activeRayBuf # OcclusionRayBuf
    /\ Entered =>
          \A i \in 1..Len(calls) :
              calls[i].op \in ProductionOps =>
                  IF calls[i].op \in {"RayIntersectionTest", "AccumulateEmissiveSamples"}
                  THEN RayBufOf(calls[i]) = 2
                  ELSE RayBufOf(calls[i]) \in {0, 1}

\* Both path buffers and the occlusion buffer have been used.
C13_Witness ==
    /\ Returned /\ ierr = Nil /\ cur.NumBounces = 3 /\ activeRayBuf = 0
    /\ \E i \in 1..Len(calls) : calls[i].op = "ShadeHits" /\ RayBufOf(calls[i]) = 1
    /\ \E i \in 1..Len(calls) :
          calls[i].op = "AccumulateEmissiveSamples" /\ RayBufOf(calls[i]) = 2
    /\ \E i \in 2..Len(calls) :
          calls[i].op = "RayIntersectionQuery" /\ RayBufOf(calls[i]) = 0

\* --------------------------------------------------------------- captures
DebugKernelOps == {"DebugRayIntersectionDepth", "DebugRayIntersectionNormals",
                   "DebugThroughput", "DebugEmissiveSamples", "DebugAccumulator"}
HostOps == {"os.Create", "DebugOutput.ReadData", "png.Encode"}

\* The call at position i of the log is the last one and its error is the
\* error the integrator returned.
EndsRunAt(i) == i = Len(calls) /\ ipc = "done" /\ ierr = calls[i].res

\* C14: after a debug kernel call that failed, dumpDebugBuffer creates no
\* file, reads nothing back and encodes nothing, and the error it hands back
\* is the kernel's; after one that succeeded it creates the file, then reads
\* the debug buffer, then encodes the image into that file, stopping at the
\* first of the three that fails and handing back that error. No file is
\* created, read back or encoded in any other way.
C14_DumpDebugBuffer ==
    Entered =>
        \A i \in 1..Len(calls) :
            /\ calls[i].op \in DebugKernelOps =>
                  IF calls[i].res # Nil THEN EndsRunAt(i)
                  ELSE /\ i + 1 <= Len(calls)
                       /\ calls[i + 1].op = "os.Create"
                       /\ calls[i + 1].file # ""
            /\ calls[i].op = "os.Create" =>
                  /\ i > 1 /\ calls[i - 1].op \in DebugKernelOps
                  /\ calls[i - 1].res = Nil
                  /\ IF calls[i].res # Nil THEN EndsRunAt(i)
                     ELSE /\ i + 1 <= Len(calls)
                          /\ calls[i + 1].op = "DebugOutput.ReadData"
            /\ calls[i].op = "DebugOutput.ReadData" =>
                  /\ i > 1 /\ calls[i - 1].op = "os.Create"
                  /\ calls[i - 1].res = Nil
                  /\ IF calls[i].res # Nil THEN EndsRunAt(i)
                     ELSE /\ i + 1 <= Len(calls)
                          /\ calls[i + 1].op = "png.Encode"
                          /\ calls[i + 1].file = calls[i - 1].file
                          /\ calls[i + 1].args = calls[i - 1].args
            /\ calls[i].op = "png.Encode" =>
                  /\ i > 1 /\ calls[i - 1].op = "DebugOutput.ReadData"
                  /\ calls[i - 1].res = Nil
                  /\ calls[i].res # Nil => EndsRunAt(i)

\* A first capture was written out in full; the kernel of a later one failed.
C14_Witness ==
    /\ Returned /\ ierr = ErrKernel
    /\ LastCall.op \in DebugKernelOps /\ LastCall.res = ErrKernel
    /\ Count({"png.Encode"}) >= 1 /\ Count({"os.Create"}) = Count({"png.Encode"})

\* C15: a capture step that fails, in its kernel, in creating the file, in the
\* readback or in the encode, makes the integrator return that error at once:
\* the failed call is the last call of the run, production or debug. A capture
\* that succeeds does not end the run and leaves no error: the integrator goes
\* on, and returns nil only after the loop has run all its bounces.
C15_CaptureFailureAborts ==
    Entered =>
        /\ \A i \in 1..Len(calls) :
              (calls[i].op \in (DebugKernelOps \cup HostOps) /\ calls[i].res # Nil)
                  => EndsRunAt(i)
        /\ (LastCall.op = "png.Encode" /\ LastCall.res = Nil) =>
              /\ ierr = Nil
              /\ ipc = "done" => bounce = cur.NumBounces
        /\ (Returned /\ ierr = Nil) =>
              /\ bounce = cur.NumBounces
              /\ \A i \in 1..Len(calls) : calls[i].res = Nil

\* The throughput capture of bounce 0 succeeded, the run went on, and in
\* bounce 1 the file of a capture could not be created.
C15_Witness ==
    /\ Returned /\ ierr = ErrCreate /\ bounce = 1 /\ cur.NumBounces = 3
    /\ LastCall.op = "os.Create" /\ LastCall.res = ErrCreate
    /\ HasFlag(debugFlags, Throughput)
    /\ Count({"png.Encode"}) >= 1 /\ Count({"ShadeHits"}) = 2

\* ------------------------------------------------- the primary intersection
\* C16: the first call of the integrator is the one primary intersection, on
\* buffer 0: RayPacketIntersectionQuery on a GPU device and
\* RayIntersectionQuery on any other; the packet query is never issued on
\* another device nor a second time, and every later intersection query is a
\* RayIntersectionQuery, one per buffer flip. The production calls after the
\* first are those of ExpectedFrom(0), which is computed from the request and
\* the scene without the device type, so they are the same on both devices.
C16_PrimaryQueryByDevice ==
    Entered =>
        /\ calls[1].op = (IF devType = GpuDevice THEN "RayPacketIntersectionQuery"
                          ELSE "RayIntersectionQuery")
        /\ calls[1].args = <<0, cur.FrameW * cur.BlockH>>
        /\ Count({"RayPacketIntersectionQuery"}) = (IF devType = GpuDevice THEN 1 ELSE 0)
        /\ Count({"RayIntersectionQuery"}) = flips + (IF devType = GpuDevice THEN 0 ELSE 1)
        /\ \A i \in 2..Len(calls) :
              calls[i].op \in IntersectOps =>
                  /\ calls[i].op = "RayIntersectionQuery"
                  /\ calls[i - 1].op \notin IntersectOps
        /\ LET rest == Tail(Production)
               ref  == ExpectedFrom(0)
           IN  /\ IsPrefix(rest, ref)
               /\ (Returned /\ ierr = Nil) => rest = ref

\* A GPU run of two bounces: one packet query, then one plain re-intersection.
C16_Witness ==
    /\ Returned /\ ierr = Nil /\ devType = GpuDevice /\ cur.NumBounces = 2
    /\ calls[1].op = "RayPacketIntersectionQuery"
    /\ Count({"RayPacketIntersectionQuery"}) = 1
    /\ Count({"RayIntersectionQuery"}) = 1

\* ------------------------------------------------- where the captures run
PerBounceDebugOps == {"DebugThroughput", "DebugEmissiveSamples", "DebugAccumulator"}

\* The place of a device call in the text of the integrator: the intersection
\* that opens a bounce, the primary captures, the loop body.
StepRank(c) ==
    CASE c.op \in IntersectOps -> 0
      [] c.op = "DebugRayIntersectionDepth" -> 1
      [] c.op = "DebugRayIntersectionNormals" -> 2
      [] c.op \in MissOps -> 3
      [] c.op = "ShadeHits" -> 4
      [] c.op = "DebugThroughput" -> 5
      [] c.op = "RayIntersectionTest" -> 6
      [] c.op = "AccumulateEmissiveSamples" -> 7
      [] c.op = "DebugEmissiveSamples" /\ c.args = <<0, 0>> -> 8
      [] c.op = "DebugEmissiveSamples" /\ c.args = <<1, 0>> -> 9
      [] c.op = "DebugEmissiveSamples" /\ c.args = <<0, 1>> -> 10
      [] c.op = "DebugAccumulator" -> 11

\* The ranks of the calls every bounce makes.
EveryBounceRanks == {4, 6, 7}

\* A device call of rank rd may directly follow one of rank rc: it opens the
\* next bounce after the accumulation of this one and its captures, or it
\* comes later in the same bounce with no call that every bounce makes left
\* out in between.
MayFollow(rc, rd) ==
    IF rd = 0 THEN rc >= 7
    ELSE rc < rd /\ \A r \in EveryBounceRanks : ~(rc < r /\ r < rd)

\* C17: the depth and the normals capture run at most once, after the primary
\* intersection and before the first bounce, depth first; inside a bounce
\* each per-bounce capture runs at most once: the throughput capture after
\* ShadeHits and before the occlusion test, the three emissive captures and
\* the accumulator capture, in that order, after AccumulateEmissiveSamples and
\* before the re-intersection that follows the flip. With numBounces = 0 no
\* per-bounce capture runs.
C17_CapturePlacement ==
    Entered =>
        LET K == SelectSeq(calls, LAMBDA c : c.op \notin HostOps)
            R == [i \in 1..Len(K) |-> StepRank(K[i])]
            depthFirst == HasFlag(debugFlags, PrimaryRayIntersectionDepth)
        IN  /\ \A i \in 1..(Len(R) - 1) : MayFollow(R[i], R[i + 1])
            /\ \A i \in 1..Len(R) :
                  /\ R[i] = 1 => i = 2
                  /\ R[i] = 2 => i = (IF depthFirst THEN 3 ELSE 2)
                  /\ R[i] \in {5, 8, 9, 10, 11} => i > 2
            /\ R[1] = 0
            /\ (Returned /\ ierr = Nil) => R[Len(R)] \notin {3, 4, 5, 6}
            /\ cur.NumBounces = 0 => Count(PerBounceDebugOps) = 0

\* Two bounces with every capture taken: 2 primary and 10 per-bounce captures.
C17_Witness ==
    /\ Returned /\ ierr = Nil /\ cur.NumBounces = 2
    /\ debugFlags = AllFlags - FrameBuffer
    /\ Count({"DebugRayIntersectionDepth"}) = 1
    /\ Count({"DebugRayIntersectionNormals"}) = 1
    /\ Count(PerBounceDebugOps) = 10
    /\ Count({"png.Encode"}) = 12

\* ------------------------------------------------- the staging buffer
\* The staging buffer the k-th call of the stage found.
BufBefore(k) == IF k = 1 THEN NilBuf ELSE copies[k - 1].readBuf

\* C18: over any sequence of calls of one CopyFrameBufferToOpenGLTexture
\* stage, the staging buffer is allocated by the first call and after that
\* replaced by a new allocation exactly when its length differs from the
\* frame buffer's size at the call; otherwise the same buffer is used again.
\* The buffer handed to every readback has the frame buffer's size. A
\* readback that fails makes the call return that error with duration 0 and
\* without the texture upload; one that succeeds is followed by the upload.
C18_StagingBuffer ==
    /\ fbBuf = BufBefore(Len(copies) + 1)
    /\ \A k \in 1..Len(copies) :
          LET c == copies[k]
          IN  /\ c.before = BufBefore(k)
              /\ k = 1 => c.allocated
              /\ c.allocated <=> (c.before = NilBuf \/ c.before.len # c.size)
              /\ ~c.allocated => c.readBuf = c.before
              /\ c.allocated =>
                    /\ c.readBuf.id # 0
                    /\ \A j \in 1..(k - 1) : copies[j].readBuf.id # c.readBuf.id
              /\ c.readBuf.len = c.size /\ c.readSize = c.size
              /\ c.err # Nil => c.dur = 0 /\ ~c.uploaded
              /\ c.err = Nil => c.uploaded

\* Allocation, reuse at the same size, a failed readback, and a new
\* allocation after the frame buffer changed size.
C18_Witness ==
    /\ Len(copies) = 3
    /\ copies[1].allocated /\ copies[1].err = Nil
    /\ ~copies[2].allocated /\ copies[2].readBuf = copies[1].readBuf
    /\ copies[2].err = ErrRead /\ copies[2].dur = 0 /\ ~copies[2].uploaded
    /\ copies[3].allocated /\ copies[3].size # copies[2].size
    /\ copies[3].readBuf.id # copies[1].readBuf.id

\* ------------------------------------------------- what ShadeHits is given
\* The last argument of a production call is its pixel count.
PixelArg(c) == c.args[Len(c.args)]

\* C19: ShadeHits is called once per bounce: its k-th call has the bounce
\* argument k - 1, so the bounces 0, 1, ..., N - 1 of an error-free run appear
\* in order without gap or repeat; every call gets the MinBouncesForRR of the
\* request as it was enqueued and the pixel count FrameW * BlockH, the same
\* one every production call of the run gets; the request the integrator
\* works on stays equal to the enqueued one.
C19_ShadeHitsArguments ==
    Entered =>
        LET H   == CallsOf({"ShadeHits"})
            req == enqueued[1]
            np  == req.FrameW * req.BlockH
        IN  /\ cur = req
            /\ \A k \in 1..Len(H) :
                  /\ H[k].args[1] = k - 1
                  /\ H[k].args[2] = req.MinBouncesForRR
                  /\ H[k].args[4] = numEmissivePrimitives
                  /\ PixelArg(H[k]) = np
            /\ \A i \in 1..Len(calls) :
                  calls[i].op \in ProductionOps => PixelArg(calls[i]) = np
            /\ Len(H) <= req.NumBounces
            /\ ipc \in BodyPcs =>
                  Len(H) = bounce + (IF ipc \in {"miss", "hits"} THEN 0 ELSE 1)
            /\ (Returned /\ ierr = Nil) => Len(H) = req.NumBounces

\* Three bounces of a block of 3 x 1 pixels with threshold 2.
C19_Witness ==
    /\ Returned /\ ierr = Nil /\ cur.NumBounces = 3
    /\ cur.FrameW = 3 /\ cur.BlockH = 1 /\ cur.FrameH = 2 /\ cur.MinBouncesForRR = 2
    /\ Count({"ShadeHits"}) = 3
    /\ CallsOf({"ShadeHits"})[3].args[1] = 2
    /\ CallsOf({"ShadeHits"})[3].args[2] = 2
    /\ PixelArg(CallsOf({"ShadeHits"})[3]) = 3

\* ------------------------------------------------------------ the flag masks
\* The capture flags in the order of their declaration, and the rank of the
\* capture each of the first seven guards in the integrator.
Flags == <<PrimaryRayIntersectionDepth, PrimaryRayIntersectionNormals,
           AllEmissiveSamples, VisibleEmissiveSamples, OccludedEmissiveSamples,
           Throughput, Accumulator, FrameBuffer>>
CaptureRankOfFlag == <<1, 2, 8, 9, 10, 5, 11>>

\* Flag number i was put into the flag set s: s is a sum of distinct flags,
\* and the i-th contributes 2^i to it.
Included(i, s) == (s \div (2 ^ i)) % 2 = 1

\* C20: the i-th declared capture flag is the single-bit mask 1 << i, for
\* i = 1..8: non-zero, distinct from every other flag, below 2^16; and for the
\* flag set S the tracer was configured with, S & F == F holds of a flag F
\* exactly when F was put into S. So a complete run of at least one bounce
\* takes the capture of a flag exactly when the flag is in S, the pipeline has
\* the frame-buffer dump exactly when FrameBuffer is in S, and NoDebug takes
\* no capture and adds no dump.
C20_FlagMasks ==
    /\ \A i \in 1..8 :
          /\ Flags[i] = 2 ^ i
          /\ Flags[i] # NoDebug /\ Flags[i] < 2 ^ DebugFlagBits
          /\ \A j \in 1..8 : i # j => Flags[i] # Flags[j]
          /\ HasFlag(debugFlags, Flags[i]) <=> Included(i, debugFlags)
          /\ ~HasFlag(NoDebug, Flags[i])
    /\ Len(pipeline.PostProcess) = (IF Included(8, debugFlags) THEN 2 ELSE 1)
    /\ (Returned /\ ierr = Nil /\ cur.NumBounces >= 1) =>
          \A i \in 1..7 :
              (\E k \in 1..Len(calls) :
                  /\ calls[k].op \in DebugKernelOps
                  /\ StepRank(calls[k]) = CaptureRankOfFlag[i])
              <=> Included(i, debugFlags)
    /\ (Entered /\ debugFlags = NoDebug) => Count(DebugKernelOps \cup HostOps) = 0

\* Only the visible-samples and the throughput flag are set (16 + 64): a
\* complete run took exactly those two captures in each of its two bounces.
C20_Witness ==
    /\ Returned /\ ierr = Nil /\ cur.NumBounces = 2
    /\ debugFlags = VisibleEmissiveSamples + Throughput /\ debugFlags = 80
    /\ Count(DebugKernelOps) = 4
    /\ Count({"DebugThroughput"}) = 2 /\ Count({"DebugEmissiveSamples"}) = 2
    /\ \A k \in 1..Len(calls) :
          calls[k].op = "DebugEmissiveSamples" => calls[k].args = <<1, 0>>

====
